---- MODULE Spec2Model ----
(***************************************************************************)
(* Acquisition / buffering / persistence pipeline of program.py:           *)
(* OpcClientThread (run, _flush_cache_to_db, stop), DatabaseManager        *)
(* (_create_table, insert_bulk_data) and the MainWindow handlers that      *)
(* start, stop and dispose the acquisition thread.                         *)
(***************************************************************************)
EXTENDS Integers, Sequences, FiniteSets, TLC

\* ------------------------------------------------------------------------
\* Bounds of the model
\* ------------------------------------------------------------------------
MaxPolls == 2      \* poll cycles over the whole run (the clock stops there)
MaxSessions == 2   \* acquisition threads started over the whole run
MaxCalls == 2      \* direct insert_bulk_data calls in the store specification
MaxBatch == 2      \* records per batch in the store specification

\* ------------------------------------------------------------------------
\* Values
\* ------------------------------------------------------------------------
\* Python None / SQL NULL.
None == "None"
\* A node value sqlite3 cannot bind (a list, a datetime, ...).
Unbindable == "BAD"
\* node.get_value() raised.
Raise == "RAISE"
\* The values node.get_value() returns in the model: the start node reads 0
\* or 1, a data node reads a number or a value of an unsupported type.
NodeValues(name) == IF name = "run_start" THEN {"0", "1"} ELSE {"1", Unbindable}

\* ------------------------------------------------------------------------
\* Configuration: the [TAGS] section, keys as <<base, suffix>>.
\* ------------------------------------------------------------------------
TagKeys ==
  { <<"ph", "_name">>, <<"ph", "_nodeid">>,
    <<"temp", "_name">>, <<"temp", "_nodeid">>,
    <<"run_start", "_nodeid">> }

\* The values a tag may hold: a display name, a node id, or the empty string.
TagConfigs ==
  { t \in [TagKeys -> {"", "pH", "Temperature", "ns=2;i=2"}] :
      /\ t[<<"ph", "_name">>] = "pH"
      /\ t[<<"temp", "_name">>] = "Temperature"
      /\ \A k \in TagKeys : k[2] = "_nodeid" => t[k] \in {"", "ns=2;i=2"} }

\* name.replace('_nodeid', '').replace('_name', '') on a key <<base, suffix>>.
StripSuffix(k) == k[1]

\* node_ids_to_poll: the names of the tags that end in _nodeid and are not empty.
node_ids_to_poll(t) ==
  { StripSuffix(k) : k \in { j \in TagKeys : t[j] # "" /\ j[2] = "_nodeid" } }

\* The default of polling_interval_ms that run() falls back to, in ms.
DefaultPollMs == 1000

\* The minimum of the polling interval in the settings tab, in ms.
MinPollMs == 100

\* The [SETTINGS] polling_interval_ms strings of the model: the default, one
\* below the minimum, a negative one, one that is no number.
PollSettings == {"1000", "50", "-5", "abc"}

\* int(value) of ConfigParser.getint: the integer the string denotes, or -1
\* where int() raises ValueError.
getint(value) ==
  CASE value = "1000" -> 1000
    [] value = "50" -> 50
    [] value = "-5" -> -5
    [] OTHER -> -1

\* getint raises ValueError on the string.
ValueError(value) == getint(value) = -1

\* The [TAGS] of the sessions that run with another polling_interval_ms than
\* the default: the pH node alone.
PhOnly(t) ==
  /\ t[<<"ph", "_nodeid">>] # ""
  /\ t[<<"temp", "_nodeid">>] = ""
  /\ t[<<"run_start", "_nodeid">>] = ""

\* The columns of table sensordata that the model keeps.
Columns == {"timestamp", "ph", "temperature", "bioreactor_status"}

VARIABLES
  tags,          \* config['TAGS']
  polling_interval_ms, \* config['SETTINGS']['polling_interval_ms'], a string
  poll_ms,       \* poll_ms of run(), 0 before run() assigns it
  poll_warning,  \* run() logged the WARNING about polling_interval_ms
  exported,      \* the last export_to_excel call: its arguments and what it gave
  pc,            \* position of the acquisition thread
  session,       \* number of threads started so far
  running,       \* self.running
  is_connected,  \* is_connected of run()
  timer_active,  \* self.db_timer is started
  timeout_due,   \* the interval of self.db_timer has run out, its timeout not delivered
  reactor_start_time, \* self.reactor_start_time, 0 for None
  data_cache,    \* self.data_cache
  clock,         \* time.time() of the last poll cycle
  store,         \* committed rows of sensordata
  pending,       \* rows inserted in the open transaction of self.conn
  last_insert,   \* outcome, log line and return value of the last insert_bulk_data
  status,        \* status_changed emissions of the session, in order
  steps,         \* steps of run() taken in the session, in order
  started_events,\* reactor_started emissions of the session, in order
  emitted,       \* data_received emissions of the session, in order
  connects,      \* client.connect() calls of the session
  last_reads,    \* the outcomes of the node reads of the last poll cycle
  cache_at_stop, \* data_cache when stop() was last invoked
  stop_seen,     \* stop() was invoked in the session
  handed,        \* all the readings passed to insert_bulk_data in the session
  calls,         \* direct insert_bulk_data calls made (store specification)
  watched,       \* the new rows of one batch given to insert_bulk_data, any of them
  committed_ts,  \* timestamps of the batches whose insert committed
  replayed,      \* a committed batch repeated a timestamp the store already had
  resupplied,    \* a later batch brought a row of the watched batch again
  missing,       \* rows the last committed batch describes and the store lacks
  appended       \* the readings appended to data_cache in the session, in order

storeGhosts == << calls, watched, committed_ts, replayed, resupplied, missing >>

vars == << tags, polling_interval_ms, poll_ms, poll_warning, exported, pc, session, running, is_connected, timer_active, timeout_due,
           reactor_start_time, data_cache, clock, store, pending, last_insert,
           status, steps, started_events, emitted, appended, connects, last_reads,
           cache_at_stop, stop_seen, handed, storeGhosts >>

sessionVars == << pc, session, running, is_connected, timer_active, timeout_due,
                  reactor_start_time, data_cache, clock, status, steps,
                  started_events, emitted, appended, connects, last_reads,
                  cache_at_stop, stop_seen, handed >>

\* ------------------------------------------------------------------------
\* DatabaseManager
\* ------------------------------------------------------------------------
\* row.get(k)
Get(rec, k) == IF k \in DOMAIN rec THEN rec[k] ELSE None

\* The table row an INSERT naming the columns `keys` makes of a record: the
\* named columns take rec.get(k), the others their default NULL.
ToRow(keys, rec) == [c \in Columns |-> IF c \in keys THEN Get(rec, c) ELSE None]

TsOf(rows) == { r["timestamp"] : r \in rows }

\* INSERT without a key constraint: the row is always added.
InsertAlways(rows, r) == rows \cup {r}

\* INSERT OR REPLACE: a row whose timestamp exists takes the place of the
\* existing row.
InsertOrReplace(rows, r) ==
  { q \in rows : q["timestamp"] # r["timestamp"] } \cup {r}

\* INSERT OR IGNORE under timestamp REAL PRIMARY KEY: a row whose timestamp
\* exists is dropped, the existing row stays.
InsertOrIgnore(rows, r) ==
  IF r["timestamp"] \in TsOf(rows) THEN rows ELSE rows \cup {r}

\* sqlite3 binds the parameters of one row; an unsupported type raises (the
\* timestamp is a float and always binds).
Bindable(keys, rec) == \A k \in keys \ {"timestamp"} : Get(rec, k) # Unbindable

\* cursor.executemany(sql, rows_to_insert) from row i on: rows are inserted one
\* by one into the open transaction; a row that cannot be bound raises and
\* leaves the rows before it in the transaction.
RECURSIVE ExecuteMany(_, _, _, _, _)
ExecuteMany(keys, data_list, i, committed, pend) ==
  IF i > Len(data_list) THEN [pending |-> pend, ok |-> TRUE]
  ELSE IF ~Bindable(keys, data_list[i]) THEN [pending |-> pend, ok |-> FALSE]
  ELSE LET r == ToRow(keys, data_list[i])
           seen == InsertOrIgnore(committed \cup pend, r)
       IN ExecuteMany(keys, data_list, i + 1, committed, pend \cup (seen \ committed))

\* The error is logged and raised again to the caller.
OnInsertErrorRaise(st, pend) ==
  [store |-> st, pending |-> pend, outcome |-> "raised",
   log |-> "ERROR: Database bulk insert failed", ret |-> None]

\* The error is swallowed without a log line.
OnInsertErrorSilent(st, pend) ==
  [store |-> st, pending |-> pend, outcome |-> "failed", log |-> None, ret |-> None]

\* The except clause of insert_bulk_data: the error is logged, nothing else.
OnInsertError(st, pend) ==
  [store |-> st, pending |-> pend, outcome |-> "failed",
   log |-> "ERROR: Database bulk insert failed", ret |-> None]

\* insert_bulk_data(data_list) on a connection whose committed rows are st and
\* whose open transaction holds pend; io = "fail" is a storage I/O error raised
\* by executemany before any row is written.
insert_bulk_data(data_list, io, st, pend) ==
  IF Len(data_list) = 0
  THEN [store |-> st, pending |-> pend, outcome |-> "noop", log |-> None,
        ret |-> None]
  ELSE LET keys == DOMAIN data_list[1]
       IN IF ~(keys \subseteq Columns) \/ io = "fail"
          THEN OnInsertError(st, pend)
          ELSE LET ex == ExecuteMany(keys, data_list, 1, st, pend)
               IN IF ex.ok
                  THEN [store |-> st \cup ex.pending, pending |-> {},
                        outcome |-> "ok", log |-> "INFO: Flushed", ret |-> None]
                  ELSE OnInsertError(st, ex.pending)

\* The rows of a batch that are new to the connection: what an insert of the
\* whole batch adds when nothing fails.
RECURSIVE NewRows(_, _, _, _)
NewRows(keys, data_list, i, seen) ==
  IF i > Len(data_list) THEN {}
  ELSE LET r == ToRow(keys \cap Columns, data_list[i])
       IN IF r["timestamp"] \in TsOf(seen)
          THEN NewRows(keys, data_list, i + 1, seen)
          ELSE {r} \cup NewRows(keys, data_list, i + 1, seen \cup {r})

\* The records of a batch that are new to the connection, each as the row
\* that holds all the record's own keys.
RECURSIVE OwnRows(_, _, _)
OwnRows(data_list, i, seen) ==
  IF i > Len(data_list) THEN {}
  ELSE LET r == ToRow(DOMAIN data_list[i] \cap Columns, data_list[i])
       IN IF r["timestamp"] \in TsOf(seen)
          THEN OwnRows(data_list, i + 1, seen)
          ELSE {r} \cup OwnRows(data_list, i + 1, seen \cup {r})

\* One call of insert_bulk_data on self.conn, with its bookkeeping; keep says
\* whether an earlier batch stays the watched one.
DoInsert(data_list, io, keep) ==
  LET res == insert_bulk_data(data_list, io, store, pending)
      stay == keep \/ Len(data_list) = 0
      stamps == { data_list[i]["timestamp"] : i \in 1..Len(data_list) }
  IN /\ store' = res.store
     /\ pending' = res.pending
     /\ last_insert' = [outcome |-> res.outcome, log |-> res.log, ret |-> res.ret,
                        io |-> io]
     /\ missing' = IF res.outcome = "ok"
                   THEN OwnRows(data_list, 1, store \cup pending) \ res.store
                   ELSE {}
     /\ watched' = IF stay THEN watched
                   ELSE NewRows(DOMAIN data_list[1], data_list, 1, store \cup pending)
     /\ resupplied' = IF stay
                      THEN resupplied \/ \E i \in 1..Len(data_list) :
                             ToRow(DOMAIN data_list[1] \cap Columns, data_list[i]) \in watched
                      ELSE FALSE
     /\ replayed' = (replayed \/ (res.outcome = "ok" /\ stamps \cap TsOf(store) # {}))
     /\ committed_ts' = IF res.outcome = "ok" THEN committed_ts \cup stamps
                        ELSE committed_ts

\* ------------------------------------------------------------------------
\* DatabaseManager.export_to_excel
\* ------------------------------------------------------------------------
\* A cell of the exported table: a number n/d, a null (None or NaN), or text.
Num(n, d) == [kind |-> "num", n |-> n, d |-> d, s |-> ""]

Null == [kind |-> "null", n |-> 0, d |-> 0, s |-> ""]

Text(str) == [kind |-> "text", n |-> 0, d |-> 0, s |-> str]

\* The number a stored value is.
ValueOf(v) == IF v = "0" THEN 0 ELSE 1

\* The cell pandas reads from a stored value.
Cell(v) ==
  IF v = None THEN Null
  ELSE IF v = "STARTED" THEN Text(v)
  ELSE Num(ValueOf(v), 1)

\* The cell of a row of the table in a column.
CellOf(row, c) == IF c = "timestamp" THEN Num(row[c], 1) ELSE Cell(row[c])

\* WHERE timestamp BETWEEN start_ts AND end_ts
Between(st, start_ts, end_ts) ==
  { r \in st : start_ts <= r["timestamp"] /\ r["timestamp"] <= end_ts }

\* ORDER BY timestamp ASC
RECURSIVE OrderByTimestamp(_)
OrderByTimestamp(rows) ==
  IF rows = {} THEN << >>
  ELSE LET first == CHOOSE r \in rows :
                      \A q \in rows : r["timestamp"] <= q["timestamp"]
       IN << first >> \o OrderByTimestamp(rows \ {first})

\* The columns of the frame that hold numbers: timestamp, and a data column
\* with a value in some row (a column of NULLs alone is read as objects).
NumericColumns(rows) ==
  {"timestamp"} \cup { c \in {"ph", "temperature"} : \E r \in rows : r[c] # None }

\* The sum of a column over rows that hold a value in it.
RECURSIVE SumOf(_, _)
SumOf(rows, c) ==
  IF rows = {} THEN 0
  ELSE LET r == CHOOSE q \in rows : TRUE
       IN CellOf(r, c).n + SumOf(rows \ {r}, c)

\* mean() with the nulls of the column counted as rows.
MeanOverAllRows(rows, c) ==
  LET valued == { r \in rows : CellOf(r, c).kind = "num" }
  IN IF valued = {} THEN Null ELSE Num(SumOf(valued, c), Cardinality(rows))

\* mean() of a column over the rows of a bin: nulls skipped, null when no
\* value is left.
Mean(rows, c) ==
  LET valued == { r \in rows : CellOf(r, c).kind = "num" }
  IN IF valued = {} THEN Null ELSE Num(SumOf(valued, c), Cardinality(valued))

\* The label of the bin a timestamp falls in: bins of interval_s seconds,
\* closed on the left, counted from the start of the day.
BinOf(ts, interval_s) == ts - (ts % interval_s)

\* resample(f'{interval_s}S'): the labels from the first row's bin to the last
\* row's bin, every bin between them included.
BinLabels(rows, interval_s) ==
  LET stamps == { r["timestamp"] : r \in rows }
      lo == CHOOSE t \in stamps : \A u \in stamps : t <= u
      hi == CHOOSE t \in stamps : \A u \in stamps : u <= t
  IN { b \in BinOf(lo, interval_s)..BinOf(hi, interval_s) : b % interval_s = 0 }

\* resample(...).mean().reset_index(): one row per label, the datetime column
\* and the mean of each numeric column.
RECURSIVE Resample(_, _, _)
Resample(rows, labels, interval_s) ==
  IF labels = {} THEN << >>
  ELSE LET b == CHOOSE l \in labels : \A m \in labels : l <= m
           bin == { r \in rows : BinOf(r["timestamp"], interval_s) = b }
           row == [c \in {"datetime"} \cup NumericColumns(rows) |->
                     IF c = "datetime" THEN Num(b, 1) ELSE Mean(bin, c)]
       IN << row >> \o Resample(rows, labels \ {b}, interval_s)

\* The frame without resampling: datetime is the index, not a column.
RawFrame(rows) ==
  LET ordered == OrderByTimestamp(rows)
  IN [i \in 1..Len(ordered) |-> [c \in Columns |-> CellOf(ordered[i], c)]]

\* SELECT timestamp ... WHERE bioreactor_status = 'STARTED' ORDER BY timestamp
\* ASC LIMIT 1: the timestamp, or 0 for None.
StartTimestampNever(st) == 0

StartTimestamp(st) ==
  LET events == { r["timestamp"] : r \in { q \in st : q["bioreactor_status"] = "STARTED" } }
  IN IF events = {} THEN 0 ELSE CHOOSE t \in events : \A u \in events : t <= u

NotStartedMarker == "N/A (Reactor not started)"

\* df['EFT_seconds'] under a start timestamp: datetime minus the start.
EftSeconds(frame, start_timestamp) ==
  [i \in 1..Len(frame) |->
     [c \in DOMAIN frame[i] \cup {"EFT_seconds"} |->
        IF c = "EFT_seconds" THEN Num(frame[i]["datetime"].n - start_timestamp, 1)
        ELSE frame[i][c]]]

\* df['EFT_seconds'] = "N/A (Reactor not started)"
EftNotStarted(frame) ==
  [i \in 1..Len(frame) |->
     [c \in DOMAIN frame[i] \cup {"EFT_seconds"} |->
        IF c = "EFT_seconds" THEN Text(NotStartedMarker) ELSE frame[i][c]]]

\* rename_map: the column named like a *_name tag without its suffix gets the
\* tag's value.
RenameMap(t, c) ==
  IF <<c, "_name">> \in TagKeys THEN t[<<c, "_name">>] ELSE c

\* df.rename(columns=rename_map)
Rename(t, frame) ==
  [i \in 1..Len(frame) |->
     LET row == frame[i]
     IN [n \in { RenameMap(t, c) : c \in DOMAIN row } |->
           row[CHOOSE c \in DOMAIN row : RenameMap(t, c) = n]]]

\* What an export gives: the pair returned and the rows of the Data sheet.
Failed(args, msg) == [args |-> args, ok |-> FALSE, msg |-> msg, rows |-> << >>]

NoExport == Failed(<< 0, 0, 0 >>, "none")

\* The empty frame is written to the workbook.
NoDataExported(args) ==
  [args |-> args, ok |-> TRUE, msg |-> "Export successful.", rows |-> << >>]

\* if df.empty: return False, "No data found in the selected time range."
NoDataFound(args) == Failed(args, "No data found in the selected time range.")

\* How mean() treats a column of objects: pandas before 2.0 leaves the column
\* out, pandas 2 raises TypeError.
Builds == {"drops_objects", "raises_on_objects"}

\* export_to_excel(output_path, start_ts, end_ts, interval_s, config)
export_to_excel(st, start_ts, end_ts, interval_s, t, build) ==
  LET args == << start_ts, end_ts, interval_s >>
      df == Between(st, start_ts, end_ts)
      start_timestamp == StartTimestamp(st)
  IN IF df = {} THEN NoDataFound(args)
     ELSE IF interval_s > 0 /\ build = "raises_on_objects"
     THEN Failed(args, "An error occurred: TypeError")
     ELSE IF interval_s = 0 /\ start_timestamp # 0
     THEN Failed(args, "An error occurred: 'datetime'")
     ELSE LET frame == IF interval_s > 0
                       THEN Resample(df, BinLabels(df, interval_s), interval_s)
                       ELSE RawFrame(df)
              eft == IF start_timestamp # 0 THEN EftSeconds(frame, start_timestamp)
                     ELSE EftNotStarted(frame)
          IN [args |-> args, ok |-> TRUE, msg |-> "Export successful.",
              rows |-> Rename(t, eft)]

\* ------------------------------------------------------------------------
\* OpcClientThread
\* ------------------------------------------------------------------------
\* What one node read gives: a value, or Raise when node.get_value() raises.
ReadOutcomes(nodes) ==
  { f \in [nodes -> {"0", "1", Unbindable, Raise}] :
      \A n \in nodes : f[n] \in NodeValues(n) \cup {Raise} }

\* The start channel is read as the marker whether or not the marker is set.
StartBranchAlways(name, mk) == name = "run_start"

\* The start channel is read as the marker in this cycle: name == 'run_start'
\* and not self.reactor_start_time.
StartBranch(name, mk) == name = "run_start" /\ mk = 0

\* The cycle sets the marker: the start branch is taken and the node reads 1.
StartsNow(nodes, reads, mk) ==
  "run_start" \in nodes /\ StartBranch("run_start", mk) /\ reads["run_start"] = "1"

\* A failed read is recorded as 0.
OnReadErrorZero(value) == "0"

\* except Exception: data[name] = None
OnReadError(value) == None

\* The value data[name] takes from one node read.
ReadValue(outcome) == IF outcome = Raise THEN OnReadError(outcome) ELSE outcome

\* The names that get a key in data: every node read in the else branch, and
\* every node whose read raised.
DataKeys(nodes, reads, mk) ==
  { n \in nodes : ~StartBranch(n, mk) \/ reads[n] = Raise }

\* The dict data without the status note.
ReadingWithoutNote(nodes, reads, ts, mk) ==
  [k \in {"timestamp"} \cup DataKeys(nodes, reads, mk) |->
     IF k = "timestamp" THEN ts ELSE ReadValue(reads[k])]

\* The dict data one poll cycle builds at time ts with the marker mk.
Reading(nodes, reads, ts, mk) ==
  LET keys == {"timestamp"} \cup DataKeys(nodes, reads, mk)
              \cup (IF StartsNow(nodes, reads, mk) THEN {"bioreactor_status"} ELSE {})
  IN [k \in keys |->
        IF k = "timestamp" THEN ts
        ELSE IF k = "bioreactor_status" /\ k \notin DataKeys(nodes, reads, mk)
             THEN "STARTED"
        ELSE ReadValue(reads[k])]

\* The cache is not cleared after the snapshot.
ClearCacheForgotten(cache) == cache

\* self.data_cache.clear() of _flush_cache_to_db
ClearCache(cache) == << >>

\* The thread exists and QThread.isRunning() holds.
IsRunning == pc \in {"started", "connect", "loop", "cycle", "finally", "disconnect", "report"}

Init ==
  /\ tags \in TagConfigs
  /\ polling_interval_ms \in PollSettings
  /\ polling_interval_ms # "1000" => PhOnly(tags)
  /\ poll_ms = 0
  /\ poll_warning = FALSE
  /\ exported = NoExport
  /\ pc = "idle"
  /\ session = 0
  /\ running = FALSE
  /\ is_connected = FALSE
  /\ timer_active = FALSE
  /\ timeout_due = FALSE
  /\ reactor_start_time = 0
  /\ data_cache = << >>
  /\ clock = 0
  /\ store = {}
  /\ pending = {}
  /\ last_insert = [outcome |-> "none", log |-> None, ret |-> None, io |-> "ok"]
  /\ status = << >>
  /\ steps = << >>
  /\ started_events = << >>
  /\ emitted = << >>
  /\ appended = << >>
  /\ connects = 0
  /\ last_reads = << >>
  /\ cache_at_stop = << >>
  /\ stop_seen = FALSE
  /\ handed = << >>
  /\ calls = 0
  /\ watched = {}
  /\ committed_ts = {}
  /\ replayed = FALSE
  /\ resupplied = FALSE
  /\ missing = {}

\* poll_ms of run(): getint of the setting, the default on ValueError.
PollMs(value) == IF ValueError(value) THEN DefaultPollMs ELSE getint(value)

\* MainWindow.start_opc_client: a new OpcClientThread (__init__) is started.
StartClient ==
  /\ pc = "idle"
  /\ session < MaxSessions
  /\ session' = session + 1
  /\ pc' = "started"
  /\ running' = FALSE
  /\ reactor_start_time' = 0
  /\ data_cache' = << >>
  /\ is_connected' = FALSE
  /\ timer_active' = FALSE
  /\ timeout_due' = FALSE
  /\ status' = << >>
  /\ steps' = << >>
  /\ started_events' = << >>
  /\ emitted' = << >>
  /\ appended' = << >>
  /\ connects' = 0
  /\ last_reads' = << >>
  /\ cache_at_stop' = << >>
  /\ stop_seen' = FALSE
  /\ handed' = << >>
  /\ UNCHANGED << tags, exported, polling_interval_ms, poll_ms, poll_warning, clock, store, pending, last_insert, storeGhosts >>

\* run(), up to the connection attempt: a DatabaseManager with a connection of
\* its own, self.running = True, the timer created but not started.
RunInit ==
  /\ pc = "started"
  /\ pc' = "connect"
  /\ pending' = {}
  /\ last_insert' = [outcome |-> "none", log |-> None, ret |-> None, io |-> "ok"]
  /\ missing' = {}
  /\ running' = TRUE
  /\ is_connected' = FALSE
  /\ timer_active' = FALSE
  /\ timeout_due' = FALSE
  /\ poll_ms' = PollMs(polling_interval_ms)
  /\ poll_warning' = ValueError(polling_interval_ms)
  /\ UNCHANGED << tags, exported, polling_interval_ms, session, reactor_start_time, data_cache, clock, store,
                  status, steps, started_events, emitted, appended, connects,
                  last_reads, cache_at_stop, stop_seen, handed, calls, watched,
                  committed_ts, replayed, resupplied >>

\* client.connect() succeeds: Connected is reported, the nodes are resolved,
\* the timer is started.
ConnectOk ==
  /\ pc = "connect"
  /\ connects' = connects + 1
  /\ is_connected' = TRUE
  /\ status' = Append(status, "Connected")
  /\ timer_active' = TRUE
  /\ timeout_due' = FALSE
  /\ pc' = "loop"
  /\ UNCHANGED << tags, exported, polling_interval_ms, poll_ms, poll_warning, session, running, reactor_start_time, data_cache, clock,
                  store, pending, last_insert, steps, started_events, emitted, appended,
                  last_reads, cache_at_stop, stop_seen, handed, storeGhosts >>

\* A failed connection attempt is reported and tried again.
ConnectFailRetry ==
  /\ pc = "connect"
  /\ connects < 2
  /\ connects' = connects + 1
  /\ status' = Append(status, "Connection Failed")
  /\ pc' = "connect"
  /\ UNCHANGED << tags, exported, polling_interval_ms, poll_ms, poll_warning, session, running, is_connected, timer_active, timeout_due,
                  reactor_start_time, data_cache, clock, store, pending,
                  last_insert, steps, started_events, emitted, appended,
                  last_reads, cache_at_stop, stop_seen, handed, storeGhosts >>

\* client.connect() raises: the except clause reports Connection Failed.
ConnectFail ==
  /\ pc = "connect"
  /\ connects' = connects + 1
  /\ status' = Append(status, "Connection Failed")
  /\ pc' = "finally"
  /\ UNCHANGED << tags, exported, polling_interval_ms, poll_ms, poll_warning, session, running, is_connected, timer_active, timeout_due,
                  reactor_start_time, data_cache, clock, store, pending,
                  last_insert, steps, started_events, emitted, appended, last_reads,
                  cache_at_stop, stop_seen, handed, storeGhosts >>

\* A flush that keeps the snapshot in the cache when its insert failed.
FlushCacheToDbRequeue ==
  IF Len(data_cache) = 0
  THEN UNCHANGED << data_cache, handed, store, pending, last_insert, watched,
                    committed_ts, replayed, resupplied, missing >>
  ELSE \E io \in {"ok", "fail"} :
         /\ DoInsert(data_cache, io, FALSE)
         /\ handed' = handed \o data_cache
         /\ data_cache' = IF last_insert'.outcome = "ok" THEN << >> ELSE data_cache

\* _flush_cache_to_db: nothing on an empty cache; else the snapshot is taken,
\* the cache cleared and the snapshot handed to insert_bulk_data.
FlushCacheToDb ==
  IF Len(data_cache) = 0
  THEN UNCHANGED << data_cache, handed, store, pending, last_insert, watched,
                    committed_ts, replayed, resupplied, missing >>
  ELSE \E io \in {"ok", "fail"} :
         /\ data_cache' = ClearCache(data_cache)
         /\ handed' = handed \o data_cache
         /\ DoInsert(data_cache, io, FALSE)

\* The loop test with the flush made in the loop, before the next cycle.
LoopTestFlushing ==
  /\ pc = "loop"
  /\ \/ /\ running
        /\ clock < MaxPolls
        /\ pc' = "cycle"
        /\ steps' = steps
        /\ FlushCacheToDb
     \/ /\ ~running
        /\ pc' = "finally"
        /\ steps' = Append(steps, "loop_exit")
        /\ UNCHANGED << data_cache, handed, store, pending, last_insert, watched,
                        committed_ts, replayed, resupplied, missing >>
  /\ UNCHANGED << tags, exported, polling_interval_ms, poll_ms, poll_warning, session, running, is_connected, timer_active, timeout_due,
                  reactor_start_time, clock, status, started_events, emitted,
                  appended, connects, last_reads, cache_at_stop, stop_seen, calls >>

\* while self.running: the test at the top of a cycle.
LoopTest ==
  /\ pc = "loop"
  /\ \/ /\ running
        /\ clock < MaxPolls
        /\ pc' = "cycle"
        /\ steps' = steps
     \/ /\ ~running
        /\ pc' = "finally"
        /\ steps' = Append(steps, "loop_exit")
  /\ UNCHANGED << tags, exported, polling_interval_ms, poll_ms, poll_warning, session, running, is_connected, timer_active, timeout_due,
                  reactor_start_time, data_cache, clock, store, pending,
                  last_insert, status, started_events, emitted, appended, connects,
                  last_reads, cache_at_stop, stop_seen, handed, storeGhosts >>

\* A poll cycle that emits its reading and does not append it to the cache.
PollCycleEmitOnly ==
  /\ pc = "cycle"
  /\ \E reads \in ReadOutcomes(node_ids_to_poll(tags)) :
       LET ts == clock + 1
           data == Reading(node_ids_to_poll(tags), reads, ts, reactor_start_time)
           starts == StartsNow(node_ids_to_poll(tags), reads, reactor_start_time)
       IN /\ clock' = ts
          /\ last_reads' = reads
          /\ reactor_start_time' = IF starts THEN ts ELSE reactor_start_time
          /\ started_events' = IF starts THEN Append(started_events, ts)
                               ELSE started_events
          /\ emitted' = Append(emitted, data)
          /\ appended' = appended
          /\ data_cache' = data_cache
  /\ pc' = "loop"
  /\ UNCHANGED << tags, exported, polling_interval_ms, poll_ms, poll_warning, session, running, is_connected, timer_active, timeout_due, store,
                  pending, last_insert, status, steps, connects, cache_at_stop,
                  stop_seen, handed, storeGhosts >>

\* time.sleep(poll_interval_s) raises ValueError on a negative length.
SleepRaises(ms) == ms < 0

\* One poll cycle: the timestamp, the node reads, the start marker, the emit,
\* the append and the sleep. A sleep that raises ends the loop in the except
\* clause of run(), which reports Connection Failed.
PollCycle ==
  /\ pc = "cycle"
  /\ \E reads \in ReadOutcomes(node_ids_to_poll(tags)) :
       LET ts == clock + 1
           data == Reading(node_ids_to_poll(tags), reads, ts, reactor_start_time)
           starts == StartsNow(node_ids_to_poll(tags), reads, reactor_start_time)
       IN /\ clock' = ts
          /\ last_reads' = reads
          /\ reactor_start_time' = IF starts THEN ts ELSE reactor_start_time
          /\ started_events' = IF starts THEN Append(started_events, ts)
                               ELSE started_events
          /\ emitted' = Append(emitted, data)
          /\ appended' = Append(appended, data)
          /\ data_cache' = Append(data_cache, data)
  /\ IF SleepRaises(poll_ms)
     THEN /\ status' = Append(status, "Connection Failed")
          /\ steps' = Append(steps, "loop_exit")
          /\ pc' = "finally"
     ELSE /\ status' = status
          /\ steps' = steps
          /\ pc' = "loop"
  /\ UNCHANGED << tags, exported, polling_interval_ms, poll_ms, poll_warning, session, running, is_connected, timer_active, timeout_due, store,
                  pending, last_insert, connects, cache_at_stop,
                  stop_seen, handed, storeGhosts >>

\* finally without the flush: the timer is stopped and the cache left as it is.
FinalFlushSkipped ==
  /\ pc = "finally"
  /\ timer_active' = FALSE
  /\ timeout_due' = FALSE
  /\ steps' = Append(steps, "flush")
  /\ pc' = "disconnect"
  /\ UNCHANGED << tags, exported, polling_interval_ms, poll_ms, poll_warning,
                  session, running, is_connected, reactor_start_time, data_cache,
                  clock, store, pending, last_insert, status, started_events,
                  emitted, appended, connects, last_reads, cache_at_stop,
                  stop_seen, handed, storeGhosts >>

\* finally: self.db_timer.stop(); self._flush_cache_to_db(). An exception
\* leaving the flush would leave run() from inside the finally clause.
FinalFlush ==
  /\ pc = "finally"
  /\ timer_active' = FALSE
  /\ timeout_due' = FALSE
  /\ steps' = Append(steps, "flush")
  /\ FlushCacheToDb
  /\ pc' = IF last_insert'.outcome = "raised" THEN "crashed" ELSE "disconnect"
  /\ UNCHANGED << tags, exported, polling_interval_ms, poll_ms, poll_warning, session, running, is_connected, reactor_start_time,
                  clock, status, started_events, emitted, appended, connects,
                  last_reads, cache_at_stop, stop_seen, calls >>

\* The finally clause goes on to report without disconnecting.
DisconnectSkipped ==
  /\ pc = "disconnect"
  /\ pc' = "report"
  /\ UNCHANGED << tags, exported, polling_interval_ms, poll_ms, poll_warning, session, running, is_connected, timer_active, timeout_due,
                  reactor_start_time, data_cache, clock, store, pending,
                  last_insert, status, steps, started_events, emitted, appended,
                  connects, last_reads, cache_at_stop, stop_seen, handed,
                  storeGhosts >>

\* finally: if is_connected and client: client.disconnect(); a disconnect that
\* raises leaves run() with the exception.
Disconnect ==
  /\ pc = "disconnect"
  /\ IF is_connected
     THEN \/ /\ steps' = Append(steps, "disconnect")
             /\ pc' = "report"
          \/ /\ steps' = Append(steps, "disconnect_raised")
             /\ pc' = "crashed"
     ELSE /\ steps' = steps
          /\ pc' = "report"
  /\ UNCHANGED << tags, exported, polling_interval_ms, poll_ms, poll_warning, session, running, is_connected, timer_active, timeout_due,
                  reactor_start_time, data_cache, clock, store, pending,
                  last_insert, status, started_events, emitted, appended, connects,
                  last_reads, cache_at_stop, stop_seen, handed, storeGhosts >>

\* finally: self.status_changed.emit("Disconnected")
ReportDisconnected ==
  /\ pc = "report"
  /\ status' = Append(status, "Disconnected")
  /\ steps' = Append(steps, "Disconnected")
  /\ pc' = "finished"
  /\ UNCHANGED << tags, exported, polling_interval_ms, poll_ms, poll_warning, session, running, is_connected, timer_active, timeout_due,
                  reactor_start_time, data_cache, clock, store, pending,
                  last_insert, started_events, emitted, appended, connects, last_reads,
                  cache_at_stop, stop_seen, handed, storeGhosts >>

\* The 30 seconds of self.db_timer run out while it is started, during a
\* time.sleep of the loop. The timeout would be delivered by an event loop of
\* the thread the timer was created in; run() never enters one (no exec()),
\* so the timeout stays due until db_timer.stop().
DbTimerTimeout ==
  /\ timer_active
  /\ pc = "loop"
  /\ ~timeout_due
  /\ timeout_due' = TRUE
  /\ UNCHANGED << tags, exported, polling_interval_ms, poll_ms, poll_warning, pc,
                  session, running, is_connected, timer_active,
                  reactor_start_time, data_cache, clock, store, pending,
                  last_insert, status, steps, started_events, emitted, appended,
                  connects, last_reads, cache_at_stop, stop_seen, handed,
                  storeGhosts >>

\* OpcClientThread.stop, called by MainWindow.stop_opc_client while the thread
\* is running.
Stop ==
  /\ IsRunning
  /\ running' = FALSE
  /\ cache_at_stop' = data_cache
  /\ stop_seen' = TRUE
  /\ UNCHANGED << tags, exported, polling_interval_ms, poll_ms, poll_warning, pc, session, is_connected, timer_active, timeout_due,
                  reactor_start_time, data_cache, clock, store, pending,
                  last_insert, status, steps, started_events, emitted, appended, connects,
                  last_reads, handed, storeGhosts >>

\* MainWindow.on_thread_finished: the thread is dropped.
ThreadFinished ==
  /\ pc \in {"finished", "crashed"}
  /\ pc' = "idle"
  /\ UNCHANGED << tags, exported, polling_interval_ms, poll_ms, poll_warning, session, running, is_connected, timer_active, timeout_due,
                  reactor_start_time, data_cache, clock, store, pending,
                  last_insert, status, steps, started_events, emitted, appended, connects,
                  last_reads, cache_at_stop, stop_seen, handed, storeGhosts >>

Next ==
  \/ StartClient
  \/ RunInit
  \/ ConnectOk
  \/ ConnectFail
  \/ LoopTest
  \/ PollCycle
  \/ FinalFlush
  \/ Disconnect
  \/ ReportDisconnected
  \/ DbTimerTimeout
  \/ Stop
  \/ ThreadFinished

Spec == Init /\ [][Next]_vars

\* ------------------------------------------------------------------------
\* The store on its own: insert_bulk_data called with any batch
\* ------------------------------------------------------------------------
\* The timestamps of the records handed to the store in the store
\* specification.
StoreTimestamps == {1, 2}

\* The key sets of those records: a data channel, with or without the status
\* key.
StoreKeySets == { {"timestamp", "ph"}, {"timestamp", "ph", "bioreactor_status"} }

\* The records: the data channel holds a value sqlite3 can bind or, in a
\* record without the status key, one it cannot.
StoreRecords ==
  { [k \in K |-> IF k = "timestamp" THEN t
                 ELSE IF k = "bioreactor_status" THEN "STARTED"
                 ELSE v] :
      K \in StoreKeySets, t \in StoreTimestamps, v \in {"1"} }
  \cup { [timestamp |-> t, ph |-> Unbindable] : t \in StoreTimestamps }

StoreBatches == UNION { [1..n -> StoreRecords] : n \in 0..MaxBatch }

\* db_manager.insert_bulk_data(batch), called directly on one DatabaseManager.
InsertCall ==
  /\ calls < MaxCalls
  /\ calls' = calls + 1
  /\ \E batch \in StoreBatches, io \in {"ok", "fail"}, keep \in BOOLEAN :
       DoInsert(batch, io, keep)
  /\ UNCHANGED << tags, exported, polling_interval_ms, poll_ms, poll_warning, sessionVars >>

NextStore == InsertCall

\* The store specification starts from an empty table and the default tags.
InitStore == Init /\ \A k \in TagKeys : tags[k] # ""

SpecStore == InitStore /\ [][NextStore]_vars

\* ------------------------------------------------------------------------
\* The export on its own: export_to_excel called on any table
\* ------------------------------------------------------------------------
\* The largest timestamp of a stored row, and the largest interval_s.
MaxTs == 3

MaxInterval == 2

\* What the table may hold at a timestamp: nothing, a reading with or without
\* a pH value, or the reading that carries STARTED.
RowShapes == { << >>, << None, None >>, << "0", None >>, << "1", None >>,
               << "1", "STARTED" >> }

\* The tables: at most one row per timestamp.
ExportStores ==
  { { [timestamp |-> ts, ph |-> f[ts][1], temperature |-> None,
       bioreactor_status |-> f[ts][2]] : ts \in { u \in 1..MaxTs : f[u] # << >> } } :
      f \in [1..MaxTs -> RowShapes] }

\* ExportTab.export_data: a DatabaseManager on the database and one call of
\* export_to_excel. The call changes nothing in the table, so a behaviour
\* makes one.
Export ==
  /\ exported = NoExport
  /\ \E start_ts \in 1..MaxTs, end_ts \in 1..MaxTs, interval_s \in 0..MaxInterval,
        build \in Builds :
       /\ start_ts <= end_ts
       /\ exported' = export_to_excel(store, start_ts, end_ts, interval_s, tags, build)
  /\ UNCHANGED << tags, polling_interval_ms, poll_ms, poll_warning, sessionVars,
                  store, pending, last_insert, storeGhosts >>

NextExport == Export

\* The export specification starts from any table, under the default tags.
InitExport ==
  /\ tags \in TagConfigs
  /\ \A k \in TagKeys : tags[k] # ""
  /\ polling_interval_ms = "1000"
  /\ poll_ms = 0
  /\ poll_warning = FALSE
  /\ exported = NoExport
  /\ pc = "idle"
  /\ session = 0
  /\ running = FALSE
  /\ is_connected = FALSE
  /\ timer_active = FALSE
  /\ timeout_due = FALSE
  /\ reactor_start_time = 0
  /\ data_cache = << >>
  /\ clock = 0
  /\ store \in ExportStores
  /\ pending = {}
  /\ last_insert = [outcome |-> "none", log |-> None, ret |-> None, io |-> "ok"]
  /\ status = << >>
  /\ steps = << >>
  /\ started_events = << >>
  /\ emitted = << >>
  /\ appended = << >>
  /\ connects = 0
  /\ last_reads = << >>
  /\ cache_at_stop = << >>
  /\ stop_seen = FALSE
  /\ handed = << >>
  /\ calls = 0
  /\ watched = {}
  /\ committed_ts = {}
  /\ replayed = FALSE
  /\ resupplied = FALSE
  /\ missing = {}

SpecExport == InitExport /\ [][NextExport]_vars

\* ------------------------------------------------------------------------
\* Claims
\* ------------------------------------------------------------------------
\* The store has a row for the reading.
HasRow(rec) == \E r \in store : r["timestamp"] = rec["timestamp"]

\* C1: no data loss on clean stop: once the session that was stopped has
\* reported Disconnected with the storage healthy, every reading that was in
\* the cache when stop() was invoked has a row in the store.
C1_NoDataLossOnCleanStop ==
  (pc = "finished" /\ stop_seen /\ last_insert.io = "ok")
    => \A i \in 1..Len(cache_at_stop) : HasRow(cache_at_stop[i])

\* C2: at-most-once persistence: every timestamp of a batch whose insert
\* committed has exactly one row in the store, and no two rows of the store
\* share a timestamp, whatever batches were replayed.
C2_AtMostOnce ==
  /\ \A t \in committed_ts : Cardinality({ r \in store : r["timestamp"] = t }) = 1
  /\ \A r1, r2 \in store : r1["timestamp"] = r2["timestamp"] => r1 = r2

\* C2 witness: a committed batch repeated a timestamp already stored, with
\* other values than the stored row.
C2_Witness ==
  /\ replayed
  /\ last_insert.outcome = "ok"
  /\ watched = {}
  /\ Cardinality(store) = 1

Rank(step) ==
  CASE step = "loop_exit" -> 1
    [] step = "flush" -> 2
    [] step \in {"disconnect", "disconnect_raised"} -> 3
    [] step = "Disconnected" -> 4

\* The position of a shutdown step in the order the specification gives.
SpecRank(step) ==
  CASE step = "loop_exit" -> 1
    [] step \in {"disconnect", "disconnect_raised"} -> 2
    [] step = "flush" -> 3
    [] step = "Disconnected" -> 4

C5_IsolatedNodeFailure ==
  Len(appended) > 0 =>
    LET d == appended[Len(appended)]
    IN /\ "timestamp" \in DOMAIN d
       /\ d["timestamp"] = clock
       /\ \A n \in DOMAIN last_reads :
            /\ last_reads[n] = Raise => (n \in DOMAIN d /\ d[n] = None)
            /\ (last_reads[n] # Raise /\ n # "run_start")
                 => (n \in DOMAIN d /\ d[n] = last_reads[n])
       /\ \A k \in DOMAIN d \ {"timestamp"} :
            d[k] = None => (k \in DOMAIN last_reads /\ last_reads[k] = Raise)
       /\ emitted[Len(emitted)] = d
       /\ (handed \o data_cache)[Len(appended)] = d

\* C5 witness: a cycle in which the read of ph raised and temp was read.
C5_Witness ==
  /\ Len(data_cache) > 0
  /\ DOMAIN last_reads = {"ph", "temp", "run_start"}
  /\ last_reads["ph"] = Raise
  /\ last_reads["temp"] = "1"
  /\ last_reads["run_start"] = "0"
  /\ data_cache[Len(data_cache)] = [timestamp |-> clock, ph |-> None, temp |-> "1"]

\* C6: fail-fast connect: a session whose connection attempt failed has
\* reported Connection Failed, has made that one attempt only, has emitted and
\* cached no Reading and is past the loop, on its way out.
C6_FailFastConnect ==
  (Len(status) > 0 /\ status[1] = "Connection Failed") =>
    /\ connects = 1
    /\ emitted = << >>
    /\ appended = << >>
    /\ data_cache = << >>
    /\ \A i \in 1..Len(status) : status[i] # "Connected"
    /\ pc \in {"finally", "disconnect", "report", "finished", "idle"}

\* C6 witness: a session ended after a failed connection attempt.
C6_Witness ==
  /\ pc = "finished"
  /\ status = << "Connection Failed", "Disconnected" >>

\* C7: within a session the start marker is set by the cycle that reads the
\* started value while the marker is unset, to that cycle's timestamp, with one
\* ReactorStarted event; once set, no step of the session changes the marker
\* or emits another event.
C7_MarkerSetOnce ==
  [][ /\ (session' = session /\ reactor_start_time # 0)
         => (reactor_start_time' = reactor_start_time /\ started_events' = started_events)
      /\ (session' = session /\ reactor_start_time = 0 /\ clock' # clock
          /\ "run_start" \in DOMAIN last_reads' /\ last_reads'["run_start"] = "1")
         => (reactor_start_time' = clock' /\ started_events' = << clock' >>)
      /\ (session' = session /\ reactor_start_time = 0 /\ reactor_start_time' # 0)
         => (clock' # clock /\ last_reads'["run_start"] = "1")
    ]_vars

\* C7 witness: the marker was set in the first cycle and a later cycle of the
\* session read the started value again.
C7_Witness ==
  /\ reactor_start_time = 1
  /\ clock = 2
  /\ Len(appended) = 2
  /\ last_reads["run_start"] = "1"
  /\ started_events = << 1 >>

C10_AllOrNothing ==
  ~resupplied => (watched \subseteq store \/ watched \cap store = {})

\* C11: insert-or-ignore: a bulk insert leaves every row the store has as it
\* is, the only row of its timestamp; when the insert commits, the timestamps
\* of its records, stored before or new, all have a row.
C11_InsertOrIgnore ==
  [][ calls' = calls + 1 =>
        /\ \A r \in store :
             /\ r \in store'
             /\ \A q \in store' : q["timestamp"] = r["timestamp"] => q = r
        /\ last_insert'.outcome = "ok" => committed_ts' \subseteq TsOf(store')
    ]_vars

\* C11 witness: a committed batch with a stored timestamp and a new one.
C11_Witness ==
  /\ calls = 2
  /\ replayed
  /\ last_insert.outcome = "ok"
  /\ Cardinality(store) = 2
  /\ Cardinality(watched) = 1
  /\ watched \subseteq store

\* C12: union of keys: after a committed insert every new record of the batch
\* is in the store with all the columns it names, null where it names none.
C12_UnionOfKeys == missing = {}

\* C13: a stop request issued at any point after the session was started is
\* observed at the top of a poll cycle: once stop() was invoked, the loop test
\* finds the flag cleared and the loop is left.
C13_StopObserved == (stop_seen /\ pc = "loop") => ~running

C16_DisconnectBestEffort ==
  (/\ pc \in {"finished", "crashed"}
   /\ \E i \in 1..Len(steps) : steps[i] = "disconnect_raised")
    => (status # << >> /\ status[Len(status)] = "Disconnected")

\* C17: a configured polling interval below the minimum of 100 ms is a
\* configuration error: the session that polls has logged the warning and
\* sleeps the default interval between cycles.
C17_CadenceBelowMinimum ==
  (/\ pc \in {"loop", "cycle"}
   /\ ~ValueError(polling_interval_ms)
   /\ getint(polling_interval_ms) < MinPollMs)
    => (poll_warning /\ poll_ms = DefaultPollMs)

\* The table holds a STARTED row, and the timestamp of its earliest one.
HasStarted == \E r \in store : r["bioreactor_status"] = "STARTED"

Anchor ==
  CHOOSE t \in { r["timestamp"] : r \in { q \in store : q["bioreactor_status"] = "STARTED" } } :
    \A q \in store : q["bioreactor_status"] = "STARTED" => t <= q["timestamp"]

\* An export was made and did not end in the TypeError of mean().
Exported == exported.msg \notin {"none", "An error occurred: TypeError"}

\* The rows of the table in the window of the last export.
InWindow == Between(store, exported.args[1], exported.args[2])

\* The exported row that stands for a stored row: the row of its timestamp,
\* or of its bin when the export resampled.
StandsFor(i, r) ==
  IF exported.args[3] = 0
  THEN exported.rows[i]["timestamp"] = Num(r["timestamp"], 1)
  ELSE exported.rows[i]["datetime"] = Num(BinOf(r["timestamp"], exported.args[3]), 1)

\* C18: elapsed-time anchoring: under a STARTED row anywhere in the table,
\* every stored row of the export window is exported with elapsed seconds equal
\* to its timestamp minus the earliest STARTED timestamp.
C18_ElapsedAnchoring ==
  (Exported /\ HasStarted)
    => \A r \in InWindow :
         \E i \in 1..Len(exported.rows) :
           /\ StandsFor(i, r)
           /\ exported.rows[i]["EFT_seconds"] = Num(r["timestamp"] - Anchor, 1)

\* C19: every row of a successful export holds the not-started marker as its
\* elapsed time when the table has no STARTED row, and a number when it has
\* one, at any timestamp.
C19_NotStartedMarker ==
  exported.ok
    => \A i \in 1..Len(exported.rows) :
         IF HasStarted THEN exported.rows[i]["EFT_seconds"].kind = "num"
         ELSE exported.rows[i]["EFT_seconds"] = Text(NotStartedMarker)

\* C19 witness: a successful export of two rows whose window leaves out the
\* STARTED row of the table.
C19_Witness ==
  /\ exported.ok
  /\ Len(exported.rows) = 2
  /\ HasStarted
  /\ \A r \in InWindow : r["bioreactor_status"] # "STARTED"
  /\ exported.rows[1]["EFT_seconds"].kind = "num"

\* The labels of the bins that hold a stored row of the window.
OccupiedBins == { BinOf(r["timestamp"], exported.args[3]) : r \in InWindow }

\* The exported row of a bin holds, in each numeric column, the mean of the
\* bin's values that are not null, and null when there is none.
HoldsMeans(i, b) ==
  LET bin == { r \in InWindow : BinOf(r["timestamp"], exported.args[3]) = b }
  IN \A c \in NumericColumns(InWindow) :
       LET valued == { r \in bin : c = "timestamp" \/ r[c] # None }
       IN exported.rows[i][RenameMap(tags, c)] =
            IF valued = {} THEN Null
            ELSE Num(SumOf(valued, c), Cardinality(valued))

C21_RawExport ==
  (exported.msg # "none" /\ exported.args[3] = 0 /\ InWindow # {})
    => /\ exported.ok
       /\ Len(exported.rows) = Cardinality(InWindow)
       /\ \A r \in InWindow :
            \E i \in 1..Len(exported.rows) :
              \A c \in Columns : exported.rows[i][RenameMap(tags, c)] = CellOf(r, c)
       /\ \A i \in 1..Len(exported.rows), j \in 1..Len(exported.rows) :
            i < j => exported.rows[i]["timestamp"].n < exported.rows[j]["timestamp"].n

\* C22: an export whose inclusive range holds no stored row returns False
\* with the no-data message and writes no sheet.
C22_NoDataInRange ==
  (/\ exported.msg # "none"
   /\ \A r \in store : r["timestamp"] < exported.args[1] \/ r["timestamp"] > exported.args[2])
    => /\ ~exported.ok
       /\ exported.msg = "No data found in the selected time range."
       /\ exported.rows = << >>

\* C22 witness: the export of a window without rows over a table whose rows
\* lie on both sides of the window.
C22_Witness ==
  /\ exported.msg = "No data found in the selected time range."
  /\ exported.args[1] = exported.args[2]
  /\ \E r \in store : r["timestamp"] < exported.args[1]
  /\ \E r \in store : r["timestamp"] > exported.args[2]

\* The channel columns of the table that the model keeps.
ChannelColumns == {"ph", "temperature"}

\* C23: in the rows of a successful export no channel column keeps its raw
\* key: each is under a display name of the tags.
C23_DisplayNames ==
  exported.ok
    => \A i \in 1..Len(exported.rows) :
         \A c \in DOMAIN exported.rows[i] :
           c \notin ChannelColumns

\* C24: every poll cycle hands its reading to both consumers: the readings
\* emitted to the live subscriber are, in order, the readings appended to the
\* cache.
C24_EmittedIsAppended == emitted = appended

\* C24 witness: two cycles of a session gave two different readings.
C24_Witness ==
  /\ Len(emitted) = 2
  /\ Len(appended) = 2
  /\ DOMAIN emitted[1] # DOMAIN emitted[2]

\* C25: within a session the reading of the cycle that set the start marker
\* carries status STARTED and has the marker as its timestamp, and no other
\* reading of the session carries a status.
C25_StartedReading ==
  /\ \A i \in 1..Len(appended) :
       "bioreactor_status" \in DOMAIN appended[i]
         <=> (reactor_start_time # 0 /\ appended[i]["timestamp"] = reactor_start_time)
  /\ \A i \in 1..Len(appended) :
       "bioreactor_status" \in DOMAIN appended[i]
         => appended[i]["bioreactor_status"] = "STARTED"
  /\ reactor_start_time # 0
       => \E i \in 1..Len(appended) : appended[i]["timestamp"] = reactor_start_time

\* C25 witness: the marker was set in the second cycle of a session, after a
\* cycle that read the start channel as not started.
C25_Witness ==
  /\ Len(appended) = 2
  /\ reactor_start_time = appended[2]["timestamp"]
  /\ "bioreactor_status" \in DOMAIN appended[2]
  /\ "bioreactor_status" \notin DOMAIN appended[1]

\* C26: the final flush comes after the loop stopped appending: once the
\* final flush has started the cache is empty and every reading the session
\* appended has been handed to the store, up to and including the report of
\* Disconnected.
C26_FinalFlushLast ==
  (\E i \in 1..Len(steps) : steps[i] = "flush")
    => (data_cache = << >> /\ handed = appended)

\* C26 witness: Disconnected was reported by a session that appended two
\* readings.
C26_Witness ==
  /\ pc = "finished"
  /\ status[Len(status)] = "Disconnected"
  /\ Len(appended) = 2
  /\ data_cache = << >>

\* C27: every key of every reading the loop appends is a column of table
\* sensordata; the start channel is never a key of a reading.
C27_KeysAreColumns ==
  \A i \in 1..Len(appended) :
    /\ DOMAIN appended[i] \subseteq Columns
    /\ "run_start" \notin DOMAIN appended[i]

\* C28: when a session that emitted ReactorStarted(t) was stopped and reported
\* Disconnected with the storage healthy, the store holds a row of timestamp t
\* with status STARTED.
C28_StartedRowStored ==
  (/\ pc = "finished"
   /\ stop_seen
   /\ last_insert.io = "ok"
   /\ started_events # << >>)
    => \E r \in store :
         /\ r["timestamp"] = started_events[1]
         /\ r["bioreactor_status"] = "STARTED"

\* C29: each reading is passed to insert_bulk_data at most once in a session:
\* no reading is handed over twice, and a reading that was handed over is not
\* in the cache any more, whether its insert failed or not.
C29_HandedAtMostOnce ==
  /\ \A i \in 1..Len(handed), j \in 1..Len(handed) :
       i # j => handed[i]["timestamp"] # handed[j]["timestamp"]
  /\ \A i \in 1..Len(handed), j \in 1..Len(data_cache) :
       handed[i]["timestamp"] # data_cache[j]["timestamp"]

\* C29 witness: the insert of a snapshot of two readings failed and the session
\* went on to the end.
C29_Witness ==
  /\ pc = "finished"
  /\ Len(handed) = 2
  /\ last_insert.outcome = "failed"
  /\ data_cache = << >>

\* C30: within a session Connection Failed is never reported after
\* Connected.
C30_NoFailureAfterConnected ==
  \A i \in 1..Len(status), j \in 1..Len(status) :
    (i < j /\ status[i] = "Connected") => status[j] # "Connection Failed"

====
